---- MODULE Spec2Model ----
(***************************************************************************)
(* Model of src/server/src/tools_search.py: the tool catalog kept in a     *)
(* vector index (ToolSearchProvider), its metadata codec, its filter       *)
(* translation and its batched writes.                                     *)
(*                                                                         *)
(* The vector index and the embedding service are external: their calls    *)
(* are modelled by their interface (upsert/query/fetch/delete/stats,       *)
(* embed_query/embed_documents), every call may fail, and the embedding    *)
(* service may return any number of vectors of any length.                 *)
(***************************************************************************)
EXTENDS Integers, Sequences, FiniteSets, TLC

(***************************************************************************)
(* Program constants.                                                      *)
(***************************************************************************)
DEFAULT_TOP_K == 5
MAX_TOP_K == 50
EMBEDDING_DIMENSION == 1536

(***************************************************************************)
(* Bounds of the model.  DEFAULT_BATCH_SIZE (100 in the source) and the    *)
(* literal 100 of get_toolkit_tools are scaled down so that lists longer   *)
(* than a batch and namespaces larger than the fetch cap are reachable.    *)
(***************************************************************************)
DEFAULT_BATCH_SIZE == 2
TOOLKIT_FETCH_CAP == 2
MaxTools == 3
MaxBatch == 2
MaxParams == 2
MaxReqParams == 4

(***************************************************************************)
(* Small helpers.                                                          *)
(***************************************************************************)
Min(a, b) == IF a < b THEN a ELSE b

Range(s) == {s[i] : i \in 1..Len(s)}

SeqsUpTo(S, n) == UNION {[1..k -> S] : k \in 0..n}

\* str(n) of a non-negative integer: its decimal digits, most significant first
RECURSIVE str(_)
str(n) == IF n < 10 THEN <<n>> ELSE str(n \div 10) \o <<n % 10>>

(***************************************************************************)
(* Optional[str]: None or a string.                                        *)
(***************************************************************************)
None == [none |-> TRUE, s |-> ""]
Some(s) == [none |-> FALSE, s |-> s]

(***************************************************************************)
(* JSON text, as the sequence of its tokens, and JSON values.              *)
(***************************************************************************)
P(c) == [k |-> "punct", s |-> c]
S(x) == [k |-> "str", s |-> x]
L(x) == [k |-> "lit", s |-> x]

JList(items) == [t |-> "list", items |-> items]
JObj(keys, vals) == [t |-> "obj", keys |-> keys, vals |-> vals]
JStr(x) == [t |-> "str", s |-> x]
JBool(b) == [t |-> "bool", b |-> b]
JNull == [t |-> "null"]

\* dict lookup: the value of the last member named key
HasKey(obj, key) == \E i \in 1..Len(obj.keys) : obj.keys[i] = key
GetKey(obj, key) ==
    LET i == CHOOSE j \in 1..Len(obj.keys) :
                 /\ obj.keys[j] = key
                 /\ \A m \in (j+1)..Len(obj.keys) : obj.keys[m] # key
    IN obj.vals[i]

\* json.dumps of a value
RECURSIVE json_dumps(_)
RECURSIVE DumpItems(_, _)
RECURSIVE DumpMembers(_, _, _)
DumpItems(items, i) ==
    IF i > Len(items) THEN <<>>
    ELSE (IF i > 1 THEN <<P(",")>> ELSE <<>>) \o json_dumps(items[i])
             \o DumpItems(items, i + 1)
DumpMembers(keys, vals, i) ==
    IF i > Len(keys) THEN <<>>
    ELSE (IF i > 1 THEN <<P(",")>> ELSE <<>>) \o <<S(keys[i]), P(":")>>
             \o json_dumps(vals[i]) \o DumpMembers(keys, vals, i + 1)
json_dumps(v) ==
    CASE v.t = "list" -> <<P("[")>> \o DumpItems(v.items, 1) \o <<P("]")>>
      [] v.t = "obj"  -> <<P("{")>> \o DumpMembers(v.keys, v.vals, 1) \o <<P("}")>>
      [] v.t = "str"  -> <<S(v.s)>>
      [] v.t = "bool" -> <<L(IF v.b THEN "true" ELSE "false")>>
      [] v.t = "null" -> <<L("null")>>

\* json.loads: a recursive-descent parser; ok = FALSE is JSONDecodeError
Fail == [ok |-> FALSE, val |-> JNull, next |-> 0]
Done(v, n) == [ok |-> TRUE, val |-> v, next |-> n]
TokAt(toks, pos, tok) == pos <= Len(toks) /\ toks[pos] = tok

RECURSIVE ParseValue(_, _)
RECURSIVE ParseItems(_, _, _)
RECURSIVE ParseMembers(_, _, _, _)
ParseItems(toks, pos, acc) ==
    LET r == ParseValue(toks, pos) IN
    IF ~r.ok THEN Fail
    ELSE IF TokAt(toks, r.next, P("]"))
         THEN Done(JList(Append(acc, r.val)), r.next + 1)
    ELSE IF TokAt(toks, r.next, P(","))
         THEN ParseItems(toks, r.next + 1, Append(acc, r.val))
    ELSE Fail
ParseMembers(toks, pos, keys, vals) ==
    IF ~(pos + 1 <= Len(toks) /\ toks[pos].k = "str" /\ toks[pos + 1] = P(":"))
    THEN Fail
    ELSE LET r == ParseValue(toks, pos + 2) IN
         IF ~r.ok THEN Fail
         ELSE IF TokAt(toks, r.next, P("}"))
              THEN Done(JObj(Append(keys, toks[pos].s), Append(vals, r.val)), r.next + 1)
         ELSE IF TokAt(toks, r.next, P(","))
              THEN ParseMembers(toks, r.next + 1, Append(keys, toks[pos].s),
                                Append(vals, r.val))
         ELSE Fail
ParseValue(toks, pos) ==
    IF pos > Len(toks) THEN Fail
    ELSE LET tok == toks[pos] IN
         CASE tok.k = "str" -> Done(JStr(tok.s), pos + 1)
           [] tok.k = "lit" ->
                 IF tok.s = "null" THEN Done(JNull, pos + 1)
                 ELSE IF tok.s = "true" THEN Done(JBool(TRUE), pos + 1)
                 ELSE IF tok.s = "false" THEN Done(JBool(FALSE), pos + 1)
                 ELSE Fail
           [] tok = P("[") ->
                 IF TokAt(toks, pos + 1, P("]")) THEN Done(JList(<<>>), pos + 2)
                 ELSE ParseItems(toks, pos + 1, <<>>)
           [] tok = P("{") ->
                 IF TokAt(toks, pos + 1, P("}")) THEN Done(JObj(<<>>, <<>>), pos + 2)
                 ELSE ParseMembers(toks, pos + 1, <<>>, <<>>)
           [] OTHER -> Fail

json_loads(toks) ==
    LET r == ParseValue(toks, 1) IN
    IF r.ok /\ r.next = Len(toks) + 1 THEN r ELSE Fail

(***************************************************************************)
(* ToolParameter and Tool.                                                 *)
(***************************************************************************)
ToolParameter(name, type, required, description) ==
    [name |-> name, type |-> type, required |-> required, description |-> description]

\* ToolParameter.model_dump(): the four fields in declaration order
model_dump(param) ==
    JObj(<<"name", "type", "required", "description">>,
         <<JStr(param.name), JStr(param.type), JBool(param.required),
           IF param.description.none THEN JNull ELSE JStr(param.description.s)>>)

\* ToolParameter(**param_dict): the value is a mapping with a string name, a
\* string type, a boolean required and an absent, null or string description
ValidParamDict(v) ==
    /\ v.t = "obj"
    /\ HasKey(v, "name") /\ GetKey(v, "name").t = "str"
    /\ HasKey(v, "type") /\ GetKey(v, "type").t = "str"
    /\ HasKey(v, "required") /\ GetKey(v, "required").t = "bool"
    /\ HasKey(v, "description") => GetKey(v, "description").t \in {"str", "null"}
ParamFromDict(v) ==
    ToolParameter(GetKey(v, "name").s, GetKey(v, "type").s, GetKey(v, "required").b,
                  IF HasKey(v, "description") /\ GetKey(v, "description").t = "str"
                  THEN Some(GetKey(v, "description").s) ELSE None)

\* a variant that puts each parsed parameter in front of the earlier ones
RECURSIVE ParamLoop_prepend(_, _, _)
ParamLoop_prepend(items, i, parameters) ==
    IF i > Len(items) THEN parameters
    ELSE IF ~ValidParamDict(items[i]) THEN parameters
    ELSE ParamLoop_prepend(items, i + 1, <<ParamFromDict(items[i])>> \o parameters)

\* the for loop of parse_tool_parameters: append until an element raises
RECURSIVE ParamLoop(_, _, _)
ParamLoop(items, i, parameters) ==
    IF i > Len(items) THEN parameters
    ELSE IF ~ValidParamDict(items[i]) THEN parameters
    ELSE ParamLoop(items, i + 1, Append(parameters, ParamFromDict(items[i])))

\* parse_tool_parameters of a metadata value: [kind |-> "missing"] (None),
\* [kind |-> "text", toks |-> ...] for a str, [kind |-> "list", items |-> ...]
\* for a list, [kind |-> "other"] for any other value
parse_tool_parameters(parameters_str) ==
    IF parameters_str.kind = "missing" THEN <<>>
    ELSE IF parameters_str.kind = "other" THEN <<>>
    ELSE IF parameters_str.kind = "list" THEN ParamLoop(parameters_str.items, 1, <<>>)
    ELSE IF Len(parameters_str.toks) = 0 THEN <<>>
    ELSE LET r == json_loads(parameters_str.toks) IN
         IF ~r.ok THEN <<>>
         ELSE IF r.val.t = "list" THEN ParamLoop(r.val.items, 1, <<>>)
         \* any other value: iterating it raises, or yields keys or characters
         \* that are not mappings, before anything is appended
         ELSE <<>>

Tool(action_id, toolkit_id, tool_name, description, parameters, toolkit) ==
    [action_id |-> action_id, toolkit_id |-> toolkit_id, tool_name |-> tool_name,
     description |-> description, parameters |-> parameters, toolkit |-> toolkit]

ParamsText(parameters) ==
    [kind |-> "text",
     toks |-> json_dumps(JList([i \in 1..Len(parameters) |-> model_dump(parameters[i])]))]

build_tool_metadata(tool) ==
    [action_id |-> tool.action_id,
     toolkit_id |-> tool.toolkit_id,
     tool_name |-> tool.tool_name,
     description |-> tool.description,
     toolkit_name |-> tool.toolkit,
     parameters |-> ParamsText(tool.parameters)]

\* dict.get(key, default)
get(metadata, key, default) ==
    IF key \in DOMAIN metadata THEN metadata[key] ELSE default

metadata_to_tool(metadata) ==
    Tool(get(metadata, "action_id", 0), get(metadata, "toolkit_id", 0),
         get(metadata, "tool_name", ""), get(metadata, "description", ""),
         parse_tool_parameters(get(metadata, "parameters", [kind |-> "missing"])),
         get(metadata, "toolkit_name", ""))

(***************************************************************************)
(* Filter values and the structured filter map.  A value is an int or a    *)
(* str; a filter entry is absent, a scalar or a list.                      *)
(***************************************************************************)
IntV(i) == [t |-> "int", i |-> i, s |-> ""]
StrV(x) == [t |-> "str", i |-> 0, s |-> x]
Truthy(v) == IF v.t = "int" THEN v.i # 0 ELSE v.s # ""

Absent == [kind |-> "absent", items |-> <<>>]
Scalar(v) == [kind |-> "scalar", items |-> <<v>>]
List(vs) == [kind |-> "list", items |-> vs]

FilterKeys == {"tool_name", "toolkit", "toolkit_id", "chain", "required_params",
               "name_prefix"}
NativeFields == {"tool_name", "toolkit_name", "toolkit_id", "chain", "required_params"}

NoFilters == [k \in FilterKeys |-> Absent]

\* the truth value of filters.get(key): None, 0, "" and [] are falsy
Given(filters, key) ==
    LET e == filters[key] IN
    CASE e.kind = "absent" -> FALSE
      [] e.kind = "scalar" -> Truthy(e.items[1])
      [] e.kind = "list"   -> Len(e.items) > 0

(***************************************************************************)
(* The native filter: a dict whose keys are metadata fields, each mapped   *)
(* to {"$in": list}, and possibly "$and", mapped to a list of clauses      *)
(* {field: {"$in": list}}.                                                 *)
(***************************************************************************)
EmptyDict == [keys |-> {}, in |-> [f \in NativeFields |-> <<>>], and |-> <<>>]
Clause(field, list) == [field |-> field, in |-> list]
SetIn(d, field, list) ==
    [d EXCEPT !.keys = @ \cup {field}, !.in[field] = list]
AndDict(clauses) == [EmptyDict EXCEPT !.keys = {"$and"}, !.and = clauses]

\* one membership key of _build_pinecone_filter (tool_name, toolkit,
\* toolkit_id, chain): a list as it is, a scalar as a one-element list
MembershipKey(d, filters, key, field) ==
    IF Given(filters, key) THEN SetIn(d, field, filters[key].items) ELSE d

\* the loop over a required_params list
RECURSIVE RequiredParamsLoop(_, _, _)
RequiredParamsLoop(d, params, i) ==
    IF i > Len(params) THEN d
    ELSE IF "required_params" \notin d.keys
         THEN RequiredParamsLoop(SetIn(d, "required_params", <<params[i]>>), params, i + 1)
         ELSE RequiredParamsLoop(
                  AndDict(<<Clause("required_params", d.in["required_params"]),
                            Clause("required_params", <<params[i]>>)>>),
                  params, i + 1)

RequiredParamsKey(d, filters) ==
    IF ~Given(filters, "required_params") THEN d
    ELSE IF filters["required_params"].kind = "list"
         THEN RequiredParamsLoop(d, filters["required_params"].items, 1)
         ELSE SetIn(d, "required_params", filters["required_params"].items)

IsEmptyMap(filters) == \A k \in FilterKeys : filters[k].kind = "absent"

_build_pinecone_filter(filters) ==
    IF IsEmptyMap(filters) THEN EmptyDict
    ELSE LET d1 == MembershipKey(EmptyDict, filters, "tool_name", "tool_name")
             d2 == MembershipKey(d1, filters, "toolkit", "toolkit_name")
             d3 == MembershipKey(d2, filters, "toolkit_id", "toolkit_id")
             d4 == MembershipKey(d3, filters, "chain", "chain")
         IN RequiredParamsKey(d4, filters)

(***************************************************************************)
(* The index's filter grammar (spec section 6): a record's metadata, seen  *)
(* as field -> set of values (a list-valued field holds several), matches  *)
(* {"$in": list} when one of its values is in the list; the keys of a dict *)
(* and the clauses of "$and" must all match.                               *)
(***************************************************************************)
MatchIn(view, field, list) ==
    \E v \in view[field] : v \in Range(list)

Matches(d, view) ==
    /\ \A f \in d.keys \ {"$and"} : MatchIn(view, f, d.in[f])
    /\ "$and" \in d.keys =>
           \A i \in 1..Len(d.and) : MatchIn(view, d.and[i].field, d.and[i].in)

\* the view of a record written by build_tool_metadata: it has no chain and
\* no required_params field
MetaView(metadata) ==
    [f \in NativeFields |->
        CASE f = "tool_name"    -> {StrV(metadata.tool_name)}
          [] f = "toolkit_name" -> {StrV(metadata.toolkit_name)}
          [] f = "toolkit_id"   -> {IntV(metadata.toolkit_id)}
          [] OTHER              -> {}]

(***************************************************************************)
(* The catalog used by the state machine: tools 1001, 1002 and 1003 of     *)
(* toolkit 79, tool 1003 again as a tool of toolkit 80, and a tool whose   *)
(* action_id is not positive.                                              *)
(***************************************************************************)
Namespaces == {"test"}

Tool1001 == Tool(1001, 79, "swap", "swap tokens",
                 <<ToolParameter("amount", "number", TRUE, Some("how much"))>>, "dex")
Tool1002 == Tool(1002, 79, "stake", "stake tokens", <<>>, "dex")
Tool1003 == Tool(1003, 79, "send", "send tokens",
                 <<ToolParameter("to", "string", TRUE, None)>>, "dex")
Tool1003b == Tool(1003, 80, "bridge", "bridge tokens", <<>>, "hop")
ToolBad == Tool(0, 79, "broken", "no id", <<>>, "dex")

ToolPool == {Tool1001, Tool1002, Tool1003, Tool1003b, ToolBad}
ToolkitIds == {0, 79, 80}
ActionIds == {0, 1001, 1002, 1003}

\* the tool lists given to upsert_tools and held by Toolkit objects: lists
\* of different tools of the pool (two of them share an action_id)
ToolLists ==
    {tools \in SeqsUpTo(ToolPool, MaxTools) :
        \A a, b \in 1..Len(tools) : a # b => tools[a] # tools[b]}
BatchSizes == (-1)..MaxBatch

(***************************************************************************)
(* _create_embedding_text: the pieces of the formatted text, in order.     *)
(***************************************************************************)
RECURSIVE JoinNames(_, _)
JoinNames(parameters, i) ==
    IF i > Len(parameters) THEN <<>>
    ELSE (IF i > 1 THEN <<", ">> ELSE <<>>) \o <<parameters[i].name>>
             \o JoinNames(parameters, i + 1)

_create_embedding_text(tool) ==
    LET param_str == IF Len(tool.parameters) > 0 THEN JoinNames(tool.parameters, 1)
                     ELSE <<"none">>
    IN <<tool.toolkit, " ", tool.tool_name, " | ", tool.description, " | params: ">>
           \o param_str

(***************************************************************************)
(* The embedding service: a vector is known by the text it embeds and by   *)
(* its length.  The service is built from the configured model name alone, *)
(* so its vectors have the length of that model, which is the configured   *)
(* dimension or another one; a call may also return empty vectors, and     *)
(* embed_documents does not always return one vector per text.             *)
(***************************************************************************)
Vector(text, dim) == [text |-> text, dim |-> dim]
ModelDimensions == {EMBEDDING_DIMENSION, 2 * EMBEDDING_DIMENSION}

\* the index is created with the configured dimension unless an index of
\* that name exists already, which is then used with the dimension it has
IndexDimensions == {EMBEDDING_DIMENSION, 2 * EMBEDDING_DIMENSION}

\* a low-level exception, known by what its lowercased message contains
RawErrors == [emb : BOOLEAN, pine : BOOLEAN]

\* the except clauses of upsert_tool, upsert_tools and query_tools
Classify(e, generic) ==
    IF e.emb THEN "EMBEDDING_ERROR"
    ELSE IF e.pine THEN "PINECONE_ERROR"
    ELSE generic

(***************************************************************************)
(* State.                                                                  *)
(***************************************************************************)
VARIABLES
    index,      \* index[ns]: vector id -> [values, metadata], the records of ns
    pc,         \* "idle", "done" (an operation has returned or raised), or
                \* the next call of the running upsert_tools
    frame,      \* the arguments and locals of the running upsert_tools
    calls,      \* the service calls issued by the current operation, in order
    result,     \* what the last operation gave its caller
    codec,      \* a tool on its way through build_tool_metadata and back
    translation, \* a filter map on its way through _build_pinecone_filter
    index_dimension, \* the dimension of the index behind tool_index
    model_dimension  \* the vector length of the model behind tool_embeddings

vars == <<index, pc, frame, calls, result, codec, translation, index_dimension, model_dimension>>

\* the lengths of the vectors one call of the embedding service may return
EmbedDims == {0, model_dimension}
QueryDims == EmbedDims

NoCodec == [stage |-> "none"]
NoTranslation == [stage |-> "none"]

\* dim is the length of the vector embed_query returned, scores the raw
\* scores of the matches a query returned
ExtCall(api) ==
    [api |-> api, at |-> 0, n |-> 0, ids |-> <<>>, filter |-> EmptyDict, ok |-> TRUE,
     dim |-> 0, scores |-> <<>>]

Res(op) ==
    [op |-> op, status |-> "ok", kind |-> "", inner |-> "", ids |-> <<>>,
     tools |-> <<>>, count |-> 0, found |-> FALSE, responses |-> <<>>]

\* raise ToolSearchError(..., kind); inner is the kind of the classified error
\* that was raised inside the operation, "" when the failure was low-level
Raise(op, kind, inner) ==
    [Res(op) EXCEPT !.status = "error", !.kind = kind, !.inner = inner]

\* arg is the toolkit_id, action_id or top_k argument of the operations that
\* take one; query and filters are those of a search request, top_k_omitted
\* says that the request was built without a top_k
NoFrame ==
    [caller |-> "", arg |-> 0, tools |-> <<>>, namespace |-> "", batch_size |-> 0,
     i |-> 0, vector_ids |-> <<>>, batch_vectors |-> <<>>, query |-> "",
     filters |-> NoFilters, top_k_omitted |-> FALSE]

Init ==
    /\ index = [ns \in Namespaces |-> <<>>]
    /\ pc = "idle"
    /\ frame = NoFrame
    /\ calls = <<>>
    /\ result = Res("none")
    /\ codec = NoCodec
    /\ translation = NoTranslation
    /\ index_dimension \in IndexDimensions
    /\ model_dimension \in ModelDimensions

Idle == pc = "idle"

(***************************************************************************)
(* The index service.                                                      *)
(***************************************************************************)
Ids(ns) == DOMAIN index[ns]

\* upsert(vectors, namespace): later vectors replace earlier ones of the same id
RECURSIVE UpsertAll(_, _, _)
UpsertAll(recs, vectors, i) ==
    IF i > Len(vectors) THEN recs
    ELSE LET v == vectors[i]
             rec == [values |-> v.values, metadata |-> v.metadata]
         IN UpsertAll([id \in DOMAIN recs \cup {v.id} |->
                           IF id = v.id THEN rec ELSE recs[id]],
                      vectors, i + 1)

\* delete(ids, namespace): ids that are not stored are ignored
DeleteAll(recs, ids) == [id \in DOMAIN recs \ Range(ids) |-> recs[id]]

\* describe_index_stats()['namespaces'][ns]['vector_count']
vector_count(ns) == Cardinality(Ids(ns))

\* query(vector, top_k, filter, namespace): the ids of top_k records that
\* match the filter (all of them when there are fewer), in the index's order
Matching(ns, filter) ==
    {id \in Ids(ns) : Matches(filter, MetaView(index[ns][id].metadata))}

QueryMatches(ns, filter, top_k) ==
    LET M == Matching(ns, filter)
        n == Min(top_k, Cardinality(M))
    IN {s \in [1..n -> M] : \A a, b \in 1..n : a # b => s[a] # s[b]}

\* the index takes vectors of its own dimension only, in upsert and in
\* query; with any other vector the call fails
IndexAccepts(dim) == dim = index_dimension

\* the answers the index may give to a query with a vector of length dim
IndexQuery(ns, dim, filter, top_k) ==
    IF IndexAccepts(dim) THEN QueryMatches(ns, filter, top_k) ELSE {}

(***************************************************************************)
(* upsert_tool.                                                            *)
(***************************************************************************)
upsert_tool ==
    /\ Idle
    /\ \E tool \in ToolPool, namespace \in Namespaces :
         /\ frame' = [NoFrame EXCEPT !.caller = "upsert_tool", !.tools = <<tool>>,
                                     !.namespace = namespace]
         /\ LET vector_id == str(tool.action_id)
                embed == [ExtCall("embed_query") EXCEPT !.n = 1]
                Embedded(dim) == [embed EXCEPT !.dim = dim]
                write == [ExtCall("upsert") EXCEPT !.n = 1, !.ids = <<vector_id>>]
            IN
            \/ /\ tool.action_id <= 0
               /\ result' = Raise("upsert_tool", "VALIDATION_ERROR", "VALIDATION_ERROR")
               /\ calls' = <<>>
               /\ index' = index
            \/ /\ tool.action_id > 0
               /\ \E e \in RawErrors :
                    /\ result' = Raise("upsert_tool", Classify(e, "UPSERT_ERROR"), "")
                    /\ calls' = <<[embed EXCEPT !.ok = FALSE]>>
                    /\ index' = index
            \/ /\ tool.action_id > 0
               /\ \E e \in RawErrors, dim \in EmbedDims :
                    /\ result' = Raise("upsert_tool", Classify(e, "UPSERT_ERROR"), "")
                    /\ calls' = <<Embedded(dim), [write EXCEPT !.ok = FALSE]>>
                    /\ index' = index
            \/ /\ tool.action_id > 0
               /\ \E dim \in EmbedDims :
                    LET embedding == Vector(_create_embedding_text(tool), dim)
                        vectors == <<[id |-> vector_id, values |-> embedding,
                                      metadata |-> build_tool_metadata(tool)]>>
                    IN /\ IndexAccepts(dim)
                       /\ index' = [index EXCEPT ![namespace] = UpsertAll(@, vectors, 1)]
                       /\ calls' = <<Embedded(dim), write>>
                       /\ result' = [Res("upsert_tool") EXCEPT !.ids = <<vector_id>>]
    /\ pc' = "done"
    /\ UNCHANGED <<codec, translation, index_dimension, model_dimension>>

(***************************************************************************)
(* upsert_tools, in three steps: the checks before the loop, then for each *)
(* chunk the embed_documents call and the index upsert call.               *)
(* upsert_toolkit runs the same steps inside its own try block.            *)
(***************************************************************************)
\* what the caller of the running upsert_tools receives: upsert_toolkit
\* catches every exception, upsert_tools' own included
Return(caller, res) ==
    IF caller = "upsert_toolkit"
    THEN IF res.status = "error"
         THEN Raise("upsert_toolkit", "TOOLKIT_UPSERT_ERROR", res.kind)
         ELSE [res EXCEPT !.op = "upsert_toolkit"]
    ELSE res

Finish(caller, res) ==
    /\ pc' = "done"
    /\ result' = Return(caller, res)

BatchAt(tools, i, batch_size) == SubSeq(tools, i + 1, Min(i + batch_size, Len(tools)))

\* a variant that validates the tools of the first chunk only
BeginUpsertTools_first_chunk_only(caller, tools, namespace, batch_size) ==
    LET fr == [NoFrame EXCEPT !.caller = caller, !.tools = tools,
                              !.namespace = namespace, !.batch_size = batch_size]
    IN
    /\ frame' = fr
    /\ calls' = <<>>
    /\ index' = index
    /\ IF Len(tools) = 0
       THEN Finish(caller, Res("upsert_tools"))
       ELSE IF \E j \in 1..Min(Len(tools), batch_size) : tools[j].action_id <= 0
       THEN Finish(caller, Raise("upsert_tools", "VALIDATION_ERROR", "VALIDATION_ERROR"))
       ELSE IF batch_size = 0
       \* range() arg 3 must not be zero
       THEN Finish(caller, Raise("upsert_tools", "BATCH_UPSERT_ERROR", ""))
       ELSE IF batch_size < 0
       \* range(0, len, negative step) is empty
       THEN Finish(caller, Res("upsert_tools"))
       ELSE /\ pc' = "embed"
            /\ result' = Res("running")

BeginUpsertTools(caller, tools, namespace, batch_size) ==
    LET fr == [NoFrame EXCEPT !.caller = caller, !.tools = tools,
                              !.namespace = namespace, !.batch_size = batch_size]
    IN
    /\ frame' = fr
    /\ calls' = <<>>
    /\ index' = index
    /\ IF Len(tools) = 0
       THEN Finish(caller, Res("upsert_tools"))
       ELSE IF \E j \in 1..Len(tools) : tools[j].action_id <= 0
       THEN Finish(caller, Raise("upsert_tools", "VALIDATION_ERROR", "VALIDATION_ERROR"))
       ELSE IF batch_size = 0
       \* range() arg 3 must not be zero
       THEN Finish(caller, Raise("upsert_tools", "BATCH_UPSERT_ERROR", ""))
       ELSE IF batch_size < 0
       \* range(0, len, negative step) is empty
       THEN Finish(caller, Res("upsert_tools"))
       ELSE /\ pc' = "embed"
            /\ result' = Res("running")

upsert_tools ==
    /\ Idle
    /\ \E tools \in ToolLists, namespace \in Namespaces, batch_size \in BatchSizes :
         BeginUpsertTools("upsert_tools", tools, namespace, batch_size)
    /\ UNCHANGED <<codec, translation, index_dimension, model_dimension>>

upsert_toolkit ==
    /\ Idle
    /\ \E tools \in ToolLists, namespace \in Namespaces :
         IF Len(tools) = 0
         THEN /\ result' = Raise("upsert_toolkit", "TOOLKIT_UPSERT_ERROR",
                                 "VALIDATION_ERROR")
              /\ calls' = <<>>
              /\ frame' = [NoFrame EXCEPT !.caller = "upsert_toolkit",
                                          !.namespace = namespace]
              /\ pc' = "done"
              /\ index' = index
         ELSE BeginUpsertTools("upsert_toolkit", tools, namespace, DEFAULT_BATCH_SIZE)
    /\ UNCHANGED <<codec, translation, index_dimension, model_dimension>>

\* zip(batch_tools, embeddings): one vector record per pair
Zip(batch_tools, embeddings) ==
    [j \in 1..Min(Len(batch_tools), Len(embeddings)) |->
        [id |-> str(batch_tools[j].action_id),
         values |-> embeddings[j],
         metadata |-> build_tool_metadata(batch_tools[j])]]

IdsOf(vectors) == [j \in 1..Len(vectors) |-> vectors[j].id]

upsert_tools_embed ==
    /\ pc = "embed"
    /\ LET batch_tools == BatchAt(frame.tools, frame.i, frame.batch_size)
           embedding_texts == [j \in 1..Len(batch_tools) |->
                                  _create_embedding_text(batch_tools[j])]
           call == [ExtCall("embed_documents") EXCEPT
                       !.at = frame.i, !.n = Len(batch_tools)]
       IN
       \/ \E e \in RawErrors :
            /\ calls' = Append(calls, [call EXCEPT !.ok = FALSE])
            /\ Finish(frame.caller,
                      Raise("upsert_tools", Classify(e, "BATCH_UPSERT_ERROR"), ""))
            /\ frame' = frame
       \* the service returns m vectors; vectors beyond the batch are dropped
       \* by zip, so m stops at the batch length
       \/ \E m \in 0..Len(batch_tools), dim \in EmbedDims :
            LET embeddings == [j \in 1..m |-> Vector(embedding_texts[j], dim)]
                batch_vectors == Zip(batch_tools, embeddings)
            IN /\ calls' = Append(calls, [call EXCEPT !.dim = dim])
               /\ frame' = [frame EXCEPT
                               !.vector_ids = @ \o IdsOf(batch_vectors),
                               !.batch_vectors = batch_vectors]
               /\ pc' = "write"
               /\ result' = result
    /\ UNCHANGED index
    /\ UNCHANGED <<codec, translation, index_dimension, model_dimension>>

\* a variant that goes on to the next chunk after a failed write
upsert_tools_write_swallow ==
    /\ pc = "write"
    /\ LET call == [ExtCall("upsert") EXCEPT
                       !.at = frame.i, !.n = Len(frame.batch_vectors),
                       !.ids = IdsOf(frame.batch_vectors)]
           next_i == frame.i + frame.batch_size
       IN
       \/ \E e \in RawErrors :
            /\ calls' = Append(calls, [call EXCEPT !.ok = FALSE])
            /\ index' = index
            /\ frame' = [frame EXCEPT !.i = next_i]
            /\ IF next_i >= Len(frame.tools)
               THEN Finish(frame.caller,
                           Raise("upsert_tools", Classify(e, "BATCH_UPSERT_ERROR"), ""))
               ELSE /\ pc' = "embed"
                    /\ result' = result
       \/ /\ \A j \in 1..Len(frame.batch_vectors) :
                IndexAccepts(frame.batch_vectors[j].values.dim)
          /\ calls' = Append(calls, call)
          /\ index' = [index EXCEPT
                          ![frame.namespace] = UpsertAll(@, frame.batch_vectors, 1)]
          /\ frame' = [frame EXCEPT !.i = next_i]
          /\ IF next_i >= Len(frame.tools)
             THEN Finish(frame.caller,
                         [Res("upsert_tools") EXCEPT !.ids = frame.vector_ids])
             ELSE /\ pc' = "embed"
                  /\ result' = result
    /\ UNCHANGED <<codec, translation, index_dimension, model_dimension>>

upsert_tools_write ==
    /\ pc = "write"
    /\ LET call == [ExtCall("upsert") EXCEPT
                       !.at = frame.i, !.n = Len(frame.batch_vectors),
                       !.ids = IdsOf(frame.batch_vectors)]
           next_i == frame.i + frame.batch_size
       IN
       \/ \E e \in RawErrors :
            /\ calls' = Append(calls, [call EXCEPT !.ok = FALSE])
            /\ Finish(frame.caller,
                      Raise("upsert_tools", Classify(e, "BATCH_UPSERT_ERROR"), ""))
            /\ UNCHANGED <<index, frame>>
       \/ /\ \A j \in 1..Len(frame.batch_vectors) :
                IndexAccepts(frame.batch_vectors[j].values.dim)
          /\ calls' = Append(calls, call)
          /\ index' = [index EXCEPT
                          ![frame.namespace] = UpsertAll(@, frame.batch_vectors, 1)]
          /\ frame' = [frame EXCEPT !.i = next_i]
          /\ IF next_i >= Len(frame.tools)
             THEN Finish(frame.caller,
                         [Res("upsert_tools") EXCEPT !.ids = frame.vector_ids])
             ELSE /\ pc' = "embed"
                  /\ result' = result
    /\ UNCHANGED <<codec, translation, index_dimension, model_dimension>>

(***************************************************************************)
(* get_toolkit_tools, as the set of its outcomes in the current state:     *)
(* each is what it returns or raises and the calls it issued.              *)
(***************************************************************************)
Outcome(res, cs) == [res |-> res, calls |-> cs]

\* a variant that asks for every vector of the namespace
ToolkitTopK_uncapped(count) == count

\* top_k=min(100, vector_count), with the scaled cap
ToolkitTopK(count) == Min(TOOLKIT_FETCH_CAP, count)

ToolsOf(namespace, ids) ==
    [j \in 1..Len(ids) |-> metadata_to_tool(index[namespace][ids[j]].metadata)]

GetToolkitToolsOutcomes(toolkit_id, namespace) ==
    LET op == "get_toolkit_tools"
        stats == ExtCall("describe_index_stats")
        count == vector_count(namespace)
        pinecone_filter ==
            _build_pinecone_filter(
                [NoFilters EXCEPT !["toolkit_id"] = Scalar(IntV(toolkit_id))])
        top_k == ToolkitTopK(count)
        query == [ExtCall("query") EXCEPT !.n = top_k, !.filter = pinecone_filter]
    IN
    IF toolkit_id <= 0
    THEN {Outcome(Raise(op, "VALIDATION_ERROR", "VALIDATION_ERROR"), <<>>)}
    ELSE {Outcome(Raise(op, "TOOLKIT_QUERY_ERROR", ""), <<[stats EXCEPT !.ok = FALSE]>>)}
         \cup
         (IF count = 0
          THEN {Outcome(Res(op), <<stats>>)}
          ELSE {Outcome(Raise(op, "TOOLKIT_QUERY_ERROR", ""),
                        <<stats, [query EXCEPT !.ok = FALSE]>>)}
               \cup
               {Outcome([Res(op) EXCEPT !.tools = ToolsOf(namespace, matches)],
                        <<stats, [query EXCEPT !.ids = matches]>>) :
                   \* the probe is a random vector of the configured dimension
                   matches \in IndexQuery(namespace, EMBEDDING_DIMENSION,
                                          pinecone_filter, top_k)})

get_toolkit_tools ==
    /\ Idle
    /\ \E toolkit_id \in ToolkitIds, namespace \in Namespaces :
         /\ frame' = [NoFrame EXCEPT !.caller = "get_toolkit_tools",
                                     !.arg = toolkit_id, !.namespace = namespace]
         /\ \E o \in GetToolkitToolsOutcomes(toolkit_id, namespace) :
              /\ result' = o.res
              /\ calls' = o.calls
    /\ pc' = "done"
    /\ index' = index
    /\ UNCHANGED <<codec, translation, index_dimension, model_dimension>>

(***************************************************************************)
(* delete_tool, delete_tools, delete_toolkit.                              *)
(***************************************************************************)
delete_tool ==
    /\ Idle
    /\ \E action_id \in ActionIds, namespace \in Namespaces :
         LET vector_id == str(action_id)
             call == [ExtCall("delete") EXCEPT !.n = 1, !.ids = <<vector_id>>]
         IN
         /\ frame' = [NoFrame EXCEPT !.caller = "delete_tool", !.arg = action_id,
                                     !.namespace = namespace]
         /\ \/ /\ result' = Raise("delete_tool", "DELETE_ERROR", "")
               /\ calls' = <<[call EXCEPT !.ok = FALSE]>>
               /\ index' = index
            \/ /\ result' = [Res("delete_tool") EXCEPT !.found = TRUE]
               /\ calls' = <<call>>
               /\ index' = [index EXCEPT ![namespace] = DeleteAll(@, <<vector_id>>)]
    /\ pc' = "done"
    /\ UNCHANGED <<codec, translation, index_dimension, model_dimension>>

ActionIdLists == SeqsUpTo(ActionIds, 2)

\* delete_tools as a set of outcomes; deleted tells whether the index call
\* went through
DeleteToolsOutcomes(action_ids) ==
    LET vector_ids == [j \in 1..Len(action_ids) |-> str(action_ids[j])]
        call == [ExtCall("delete") EXCEPT !.n = Len(vector_ids), !.ids = vector_ids]
    IN {[res |-> Raise("delete_tools", "BATCH_DELETE_ERROR", ""),
         calls |-> <<[call EXCEPT !.ok = FALSE]>>, deleted |-> FALSE],
        [res |-> [Res("delete_tools") EXCEPT !.ids = vector_ids],
         calls |-> <<call>>, deleted |-> TRUE]}

delete_tools ==
    /\ Idle
    /\ \E action_ids \in ActionIdLists, namespace \in Namespaces :
         /\ frame' = [NoFrame EXCEPT !.caller = "delete_tools",
                                     !.namespace = namespace]
         /\ \E o \in DeleteToolsOutcomes(action_ids) :
              /\ result' = o.res
              /\ calls' = o.calls
              /\ index' = IF o.deleted
                          THEN [index EXCEPT ![namespace] = DeleteAll(@, o.calls[1].ids)]
                          ELSE index
    /\ pc' = "done"
    /\ UNCHANGED <<codec, translation, index_dimension, model_dimension>>

\* a variant that takes the tools' toolkit_id for the ids to delete
ActionIdsOf_toolkit_id(tools) == [j \in 1..Len(tools) |-> tools[j].toolkit_id]

ActionIdsOf(tools) == [j \in 1..Len(tools) |-> tools[j].action_id]

delete_toolkit ==
    /\ Idle
    /\ \E toolkit_id \in ToolkitIds, namespace \in Namespaces :
         /\ frame' = [NoFrame EXCEPT !.caller = "delete_toolkit",
                                     !.arg = toolkit_id, !.namespace = namespace]
         /\ \E g \in GetToolkitToolsOutcomes(toolkit_id, namespace) :
              IF g.res.status = "error"
              THEN /\ result' = Raise("delete_toolkit", "TOOLKIT_DELETE_ERROR", g.res.kind)
                   /\ calls' = g.calls
                   /\ index' = index
              ELSE IF Len(g.res.tools) = 0
              THEN /\ result' = Res("delete_toolkit")
                   /\ calls' = g.calls
                   /\ index' = index
              ELSE \E d \in DeleteToolsOutcomes(ActionIdsOf(g.res.tools)) :
                     /\ calls' = g.calls \o d.calls
                     /\ IF d.deleted
                        THEN /\ result' = [Res("delete_toolkit") EXCEPT
                                              !.count = Len(g.res.tools),
                                              !.tools = g.res.tools]
                             /\ index' = [index EXCEPT
                                             ![namespace] = DeleteAll(@, d.calls[1].ids)]
                        ELSE /\ result' = Raise("delete_toolkit", "TOOLKIT_DELETE_ERROR",
                                                d.res.kind)
                             /\ index' = index
    /\ pc' = "done"
    /\ UNCHANGED <<codec, translation, index_dimension, model_dimension>>

(***************************************************************************)
(* get_tool_by_id.                                                         *)
(***************************************************************************)
GetToolByIdOutcomes(action_id, namespace) ==
    LET op == "get_tool_by_id"
        vector_id == str(action_id)
        fetch == [ExtCall("fetch") EXCEPT !.n = 1, !.ids = <<vector_id>>]
    IN
    IF action_id <= 0
    THEN {Outcome(Raise(op, "VALIDATION_ERROR", "VALIDATION_ERROR"), <<>>)}
    ELSE {Outcome(Raise(op, "FETCH_ERROR", ""), <<[fetch EXCEPT !.ok = FALSE]>>),
          IF vector_id \in Ids(namespace)
          THEN Outcome([Res(op) EXCEPT
                           !.found = TRUE,
                           !.tools = <<metadata_to_tool(
                                          index[namespace][vector_id].metadata)>>],
                       <<fetch>>)
          ELSE Outcome(Res(op), <<fetch>>)}

get_tool_by_id ==
    /\ Idle
    /\ \E action_id \in ActionIds, namespace \in Namespaces :
         /\ frame' = [NoFrame EXCEPT !.caller = "get_tool_by_id", !.arg = action_id,
                                     !.namespace = namespace]
         /\ \E o \in GetToolByIdOutcomes(action_id, namespace) :
              /\ result' = o.res
              /\ calls' = o.calls
    /\ pc' = "done"
    /\ index' = index
    /\ UNCHANGED <<codec, translation, index_dimension, model_dimension>>

(***************************************************************************)
(* query_tools.  Scores are in units of 0.0001: 10000 is 1.0.              *)
(***************************************************************************)
\* str.startswith, for the tool names of the catalog
PrefixesOf(name) ==
    CASE name = "swap"   -> {"", "s", "sw", "swa", "swap"}
      [] name = "stake"  -> {"", "s", "st", "sta", "stak", "stake"}
      [] name = "send"   -> {"", "s", "se", "sen", "send"}
      [] name = "bridge" -> {"", "b", "br", "bri", "brid", "bridg", "bridge"}
      [] name = "broken" -> {"", "b", "br", "bro", "brok", "broke", "broken"}
      [] OTHER           -> {"", name}
startswith(name, prefix) == prefix \in PrefixesOf(name)

\* _apply_post_filters: keeps the matches whose tool_name starts with
\* name_prefix, in their order
RECURSIVE _apply_post_filters(_, _)
_apply_post_filters(results, filters) ==
    IF IsEmptyMap(filters) \/ Len(results) = 0 THEN results
    ELSE LET should_include ==
                 Given(filters, "name_prefix") =>
                     startswith(Head(results).metadata.tool_name,
                                filters["name_prefix"].items[1].s)
         IN (IF should_include THEN <<Head(results)>> ELSE <<>>)
                \o _apply_post_filters(Tail(results), filters)

\* round(x, 4) of a double x that stands for a decimal ending in 5 at the
\* fifth place: the double is not that decimal, and round goes to the side
\* the double lies on.  (-0.0003 + 1.0) / 2.0 lies above 0.49985 and gives
\* 0.4999; (0.0003 + 1.0) / 2.0 lies below 0.50015 and gives 0.5001.
DoubleLiesAbove(doubled) == doubled \in {9997}

\* a variant that does not clamp
_convert_distance_to_similarity_unclamped(distance) ==
    LET doubled == distance + 10000
        q == IF doubled >= 0 THEN doubled \div 2 ELSE -((-doubled) \div 2)
    IN q

\* round(max(0.0, min(1.0, (distance + 1.0) / 2.0)), 4), in units of 0.0001:
\* the doubled value is clamped to [0, 2] and halved
_convert_distance_to_similarity(distance) ==
    LET doubled == distance + 10000
        clamped == IF doubled < 0 THEN 0 ELSE IF doubled > 20000 THEN 20000 ELSE doubled
        q == clamped \div 2
    IN IF clamped % 2 = 0 THEN q ELSE IF DoubleLiesAbove(clamped) THEN q + 1 ELSE q

\* a variant that converts the raw score of a filter-only query as well
similarity_score_always_converted(dim, score) ==
    _convert_distance_to_similarity(score)

\* similarity_score = convert(score) if query_embedding else 1.0; dim = 0
\* stands for a query_embedding that is None or empty
similarity_score(dim, score) ==
    IF dim # 0 THEN _convert_distance_to_similarity(score) ELSE 10000

ToolSearchResponse(metadata, score) ==
    [tool_name |-> metadata.tool_name, action_id |-> metadata.action_id,
     toolkit_id |-> metadata.toolkit_id, description |-> metadata.description,
     parameters |-> parse_tool_parameters(metadata.parameters), score |-> score]

\* the requests of the model; top_k is given or left to its default
Queries == {"", "find"}
TopKs == {0, 1, 2, DEFAULT_TOP_K, MAX_TOP_K, MAX_TOP_K + 1}
TopKArgs ==
    {[omitted |-> FALSE, top_k |-> k] : k \in TopKs}
    \cup {[omitted |-> TRUE, top_k |-> DEFAULT_TOP_K]}

\* a variant of the top_k field without its upper limit
ValidTopK_ge_only(top_k) == top_k >= 1

\* top_k: int = Field(5, ge=1, le=50)
ValidTopK(top_k) == top_k >= 1 /\ top_k <= MAX_TOP_K
RawScores == {-20000, -10000, -3, 0, 3, 10000, 12000}
QueryFilters ==
    {NoFilters,
     [NoFilters EXCEPT !["toolkit_id"] = List(<<IntV(79)>>)],
     [NoFilters EXCEPT !["toolkit_id"] = Scalar(IntV(0))],
     [NoFilters EXCEPT !["name_prefix"] = Scalar(StrV("s"))],
     [NoFilters EXCEPT !["toolkit_id"] = List(<<IntV(79)>>),
                       !["name_prefix"] = Scalar(StrV("st"))],
     [NoFilters EXCEPT !["tool_name"] = Scalar(StrV("swap"))],
     [NoFilters EXCEPT !["chain"] = List(<<StrV("EVM")>>),
                       !["toolkit"] = List(<<StrV("dex")>>)]}

\* the raw scores of n matches: the index returns them best first
ScoreLists(n) ==
    {sc \in [1..n -> RawScores] : \A a \in 1..n, b \in 1..n : a < b => sc[a] >= sc[b]}

QueryToolsOutcomes(request, namespace) ==
    LET op == "query_tools"
        embed == [ExtCall("embed_query") EXCEPT !.n = 1]
        Embedded(dim) == [embed EXCEPT !.dim = dim]
        pinecone_filter == _build_pinecone_filter(request.filters)
        query == [ExtCall("query") EXCEPT !.n = request.top_k, !.filter = pinecone_filter]
        \* the outcomes once query_embedding is known; dim = 0 is None or []
        After(pre, dim) ==
            {Outcome(Raise(op, Classify(e, "QUERY_ERROR"), ""),
                     pre \o <<[query EXCEPT !.ok = FALSE]>>) : e \in RawErrors}
            \cup
            UNION {
              {LET matches == [j \in 1..Len(ids) |->
                                  [metadata |-> index[namespace][ids[j]].metadata,
                                   score |-> sc[j]]]
                   kept == _apply_post_filters(matches, request.filters)
               IN Outcome(
                    [Res(op) EXCEPT !.responses =
                        [j \in 1..Len(kept) |->
                            ToolSearchResponse(
                                kept[j].metadata,
                                similarity_score(dim, kept[j].score))]],
                    pre \o <<[query EXCEPT !.ids = ids, !.scores = sc]>>)
                 : sc \in ScoreLists(Len(ids))}
              \* the query vector, or a random one of the configured dimension
              : ids \in IndexQuery(namespace,
                                   IF dim # 0 THEN dim ELSE EMBEDDING_DIMENSION,
                                   pinecone_filter, request.top_k)}
    IN
    IF ~ValidTopK(request.top_k)
    \* ToolSearchRequest(top_k=...) is rejected when the request is built
    THEN {Outcome(Raise("ToolSearchRequest", "ValidationError", ""), <<>>)}
    ELSE IF request.query = "" /\ IsEmptyMap(request.filters)
    THEN {Outcome(Raise(op, "VALIDATION_ERROR", "VALIDATION_ERROR"), <<>>)}
    ELSE IF request.query # ""
    THEN {Outcome(Raise(op, Classify(e, "QUERY_ERROR"), ""),
                  <<[embed EXCEPT !.ok = FALSE]>>) : e \in RawErrors}
         \cup UNION {After(<<Embedded(dim)>>, dim) : dim \in QueryDims}
    ELSE After(<<>>, 0)

query_tools ==
    /\ Idle
    /\ \E query \in Queries, k \in TopKArgs, filters \in QueryFilters,
          namespace \in Namespaces :
         /\ frame' = [NoFrame EXCEPT !.caller = "query_tools", !.arg = k.top_k,
                                     !.top_k_omitted = k.omitted,
                                     !.namespace = namespace, !.query = query,
                                     !.filters = filters]
         /\ \E o \in QueryToolsOutcomes(
                         [query |-> query, top_k |-> k.top_k, filters |-> filters],
                         namespace) :
              /\ result' = o.res
              /\ calls' = o.calls
    /\ pc' = "done"
    /\ index' = index
    /\ UNCHANGED <<codec, translation, index_dimension, model_dimension>>

(***************************************************************************)
(* The caller (the __main__ block): it takes what the operation returned   *)
(* or raised and goes on to its next call.                                 *)
(***************************************************************************)
caller_continues ==
    /\ pc = "done"
    /\ pc' = "idle"
    /\ frame' = NoFrame
    /\ calls' = <<>>
    /\ result' = Res("none")
    /\ index' = index
    /\ UNCHANGED <<codec, translation, index_dimension, model_dimension>>

Next ==
    \/ caller_continues
    \/ upsert_tool
    \/ upsert_tools
    \/ upsert_toolkit
    \/ upsert_tools_embed
    \/ upsert_tools_write
    \/ get_toolkit_tools
    \/ delete_tool
    \/ delete_tools
    \/ delete_toolkit
    \/ get_tool_by_id
    \/ query_tools

Spec == Init /\ [][Next]_vars

(***************************************************************************)
(* The metadata codec on its own: a valid tool is encoded by               *)
(* build_tool_metadata and the stored metadata decoded by                  *)
(* metadata_to_tool.                                                       *)
(***************************************************************************)
CodecParams ==
    {ToolParameter(name, "number", required, description) :
        name \in {"amount", "to"}, required \in BOOLEAN,
        description \in {None, Some("how much"), Some("")}}

CodecTools ==
    {Tool(action_id, 79, tool_name, "swap tokens", parameters, "dex") :
        action_id \in {1, 1001}, tool_name \in {"swap", ""},
        parameters \in SeqsUpTo(CodecParams, MaxParams)}

CodecInit ==
    /\ index = [ns \in Namespaces |-> <<>>]
    /\ pc = "idle"
    /\ frame = NoFrame
    /\ calls = <<>>
    /\ result = Res("none")
    /\ index_dimension = EMBEDDING_DIMENSION
    /\ model_dimension = EMBEDDING_DIMENSION
    /\ translation = NoTranslation
    /\ \E tool \in CodecTools : codec = [stage |-> "tool", tool |-> tool]

encode ==
    /\ codec.stage = "tool"
    /\ codec' = [stage |-> "stored", tool |-> codec.tool,
                 metadata |-> build_tool_metadata(codec.tool)]
    /\ UNCHANGED <<index, pc, frame, calls, result, translation, index_dimension, model_dimension>>

decode ==
    /\ codec.stage = "stored"
    /\ codec' = [stage |-> "decoded", tool |-> codec.tool, metadata |-> codec.metadata,
                 decoded |-> metadata_to_tool(codec.metadata)]
    /\ UNCHANGED <<index, pc, frame, calls, result, translation, index_dimension, model_dimension>>

CodecNext ==
    \/ encode
    \/ decode

SpecCodec == CodecInit /\ [][CodecNext]_vars

(***************************************************************************)
(* Reading stored records on their own: metadata_to_tool applied to a      *)
(* record of the index in which any field may be missing and whose         *)
(* parameters value is any text or value a writer may have left there.     *)
(***************************************************************************)
MetadataFields ==
    {"action_id", "toolkit_id", "tool_name", "description", "toolkit_name", "parameters"}

FullRecord(parameters) ==
    [action_id |-> 1001, toolkit_id |-> 79, tool_name |-> "swap",
     description |-> "swap tokens", toolkit_name |-> "dex", parameters |-> parameters]

\* elements of a stored parameters list: two parameter objects, an object
\* without its name, an object whose required is not a boolean, null, a string
StoredElements ==
    {model_dump(ToolParameter("amount", "number", TRUE, None)),
     model_dump(ToolParameter("to", "string", FALSE, Some("receiver"))),
     JObj(<<"type", "required">>, <<JStr("number"), JBool(TRUE)>>),
     JObj(<<"name", "type", "required">>, <<JStr("amount"), JStr("number"), JNull>>),
     JNull,
     JStr("amount")}

StoredLists == SeqsUpTo(StoredElements, MaxParams)

\* the parameters values of a stored record
StoredParameters ==
    {[kind |-> "text", toks |-> json_dumps(JList(items))] : items \in StoredLists}
    \cup {[kind |-> "list", items |-> items] : items \in StoredLists}
    \cup {[kind |-> "text", toks |-> toks] :
              toks \in {<<>>, <<P("[")>>, <<P("["), P("{"), P("]")>>, <<L("nul")>>,
                         json_dumps(JStr("amount")), json_dumps(JNull),
                         json_dumps(JBool(TRUE)),
                         json_dumps(model_dump(ToolParameter("amount", "number", TRUE, None)))}}
    \cup {[kind |-> "other"]}

Restrict(f, keys) == [k \in keys |-> f[k]]

DecodeInit ==
    /\ index = [ns \in Namespaces |-> <<>>]
    /\ pc = "idle"
    /\ frame = NoFrame
    /\ calls = <<>>
    /\ result = Res("none")
    /\ index_dimension = EMBEDDING_DIMENSION
    /\ model_dimension = EMBEDDING_DIMENSION
    /\ translation = NoTranslation
    /\ \E parameters \in StoredParameters, present \in SUBSET MetadataFields :
          codec = [stage |-> "record",
                   metadata |-> Restrict(FullRecord(parameters), present)]

read_record ==
    /\ codec.stage = "record"
    /\ codec' = [stage |-> "read", metadata |-> codec.metadata,
                 decoded |-> metadata_to_tool(codec.metadata)]
    /\ UNCHANGED <<index, pc, frame, calls, result, translation, index_dimension, model_dimension>>

DecodeNext ==
    \/ read_record

SpecDecode == DecodeInit /\ [][DecodeNext]_vars

(***************************************************************************)
(* The filter translation on its own: filter maps with one membership key  *)
(* and required_params, each absent, a scalar or a list.                   *)
(***************************************************************************)
MembershipKeys == {"tool_name", "toolkit", "toolkit_id", "chain"}
FieldOf(key) == IF key = "toolkit" THEN "toolkit_name" ELSE key

ValuesOf(key) ==
    IF key = "toolkit_id" THEN {IntV(79), IntV(80), IntV(0)}
    ELSE {StrV("a"), StrV("b"), StrV("")}
ReqParamValues == {StrV("a"), StrV("b"), StrV("c"), StrV("d")}

EntriesOf(key) ==
    {Absent} \cup {Scalar(v) : v \in ValuesOf(key)}
             \cup {List(vs) : vs \in SeqsUpTo(ValuesOf(key), 2)}
ReqParamEntries ==
    {Absent} \cup {Scalar(v) : v \in ReqParamValues \cup {StrV("")}}
             \cup {List(vs) : vs \in SeqsUpTo(ReqParamValues, MaxReqParams)}

FilterInit ==
    /\ index = [ns \in Namespaces |-> <<>>]
    /\ pc = "idle"
    /\ frame = NoFrame
    /\ calls = <<>>
    /\ result = Res("none")
    /\ codec = NoCodec
    /\ index_dimension = EMBEDDING_DIMENSION
    /\ model_dimension = EMBEDDING_DIMENSION
    /\ \E key \in MembershipKeys :
         \E e \in EntriesOf(key), r \in ReqParamEntries :
            translation = [stage |-> "map",
                           filters |-> [NoFilters EXCEPT ![key] = e,
                                                         !["required_params"] = r]]

translate ==
    /\ translation.stage = "map"
    /\ translation' = [stage |-> "translated", filters |-> translation.filters,
                       native |-> _build_pinecone_filter(translation.filters)]
    /\ UNCHANGED <<index, pc, frame, calls, result, codec, index_dimension, model_dimension>>

FilterNext ==
    \/ translate

SpecFilter == FilterInit /\ [][FilterNext]_vars

\* the records a native filter is evaluated on: any set of required_params,
\* any single value of the other fields
RecordViews ==
    {[f \in NativeFields |->
         CASE f = "required_params" -> R
           [] f = "toolkit_id"      -> {IntV(t)}
           [] OTHER                 -> {StrV(n)}] :
        R \in SUBSET ReqParamValues, t \in {79, 80}, n \in {"a", "b"}}

(***************************************************************************)
(* Properties of the batch pipeline.                                       *)
(***************************************************************************)
IsBatch == frame.caller \in {"upsert_tools", "upsert_toolkit"}
LastCall == calls[Len(calls)]
StrIds(tools) == [j \in 1..Len(tools) |-> str(tools[j].action_id)]

\* C1: when the index write of chunk k of upsert_tools fails, the caller is
\* given the failure together with the ids of chunks 1..k-1 as committed
\* (with 250 tools in batches of 100 and a failing third write: 200 ids).
C1_PartialIdsReported ==
    (/\ pc = "done"
     /\ frame.caller = "upsert_tools"
     /\ Len(calls) > 0
     /\ LastCall.api = "upsert"
     /\ ~LastCall.ok)
    => /\ result.status = "error"
       /\ result.ids = StrIds(SubSeq(frame.tools, 1, LastCall.at))

\* C2: upsert_tools issues its calls chunk by chunk, embed_documents then
\* upsert, in input order; nothing is called after a call that failed; and
\* every id written by an earlier chunk is still in the index, holding a tool
\* of the list.
C2_ChunksInOrderNoRollback ==
    IsBatch =>
      /\ \A j \in 1..Len(calls) :
           /\ calls[j].api = (IF j % 2 = 1 THEN "embed_documents" ELSE "upsert")
           /\ calls[j].at = ((j - 1) \div 2) * frame.batch_size
           /\ j < Len(calls) => calls[j].ok
      /\ (Len(calls) > 0 /\ ~LastCall.ok) => (pc = "done" /\ result.status = "error")
      /\ \A j \in 1..Len(calls) :
           (calls[j].api = "upsert" /\ calls[j].ok) =>
              \A id \in Range(calls[j].ids) :
                 /\ id \in Ids(frame.namespace)
                 /\ \E q \in 1..Len(frame.tools) :
                       /\ str(frame.tools[q].action_id) = id
                       /\ index[frame.namespace][id].metadata
                             = build_tool_metadata(frame.tools[q])

\* the write of the third chunk failed after two chunks were written
C2_Witness ==
    /\ pc = "done"
    /\ frame.caller = "upsert_tools"
    /\ Len(calls) = 6
    /\ ~LastCall.ok
    /\ Len(calls[2].ids) = 1 /\ Len(calls[4].ids) = 1
    /\ calls[2].ids # calls[4].ids
    /\ {calls[2].ids[1], calls[4].ids[1]} \subseteq Ids(frame.namespace)

\* C3: upsert_tool of a tool whose action_id is not positive, and
\* upsert_tools of a list holding such a tool at any position, raise
\* VALIDATION_ERROR, call neither service and leave the index as it was.
InvalidWrite ==
    /\ frame.caller \in {"upsert_tool", "upsert_tools"}
    /\ \E j \in 1..Len(frame.tools) : frame.tools[j].action_id <= 0

C3_ValidationBeforeAnyCall ==
    [][(pc = "idle" /\ pc' # "idle" /\ InvalidWrite')
        => (/\ pc' = "done"
            /\ result'.status = "error"
            /\ result'.kind = "VALIDATION_ERROR"
            /\ calls' = <<>>
            /\ index' = index)]_vars

\* a list whose only invalid tool is in its third chunk was rejected
C3_Witness ==
    /\ pc = "done"
    /\ frame.caller = "upsert_tools"
    /\ frame.batch_size = 1
    /\ Len(frame.tools) = 3
    /\ frame.tools[1].action_id > 0 /\ frame.tools[2].action_id > 0
    /\ frame.tools[3].action_id <= 0
    /\ result.kind = "VALIDATION_ERROR"
    /\ calls = <<>>

(***************************************************************************)
(* Properties of the filter translation.                                   *)
(***************************************************************************)
Translated == translation.stage = "translated"
OnlyKey(filters, key) ==
    /\ filters[key].kind # "absent"
    /\ \A k \in FilterKeys \ {key} : filters[k].kind = "absent"

\* C4: for required_params given as a list of n >= 2 elements, the
\* translated expression is satisfied by exactly the records whose
\* required_params hold every one of the n elements.
C4_AllRequiredParams ==
    (/\ Translated
     /\ OnlyKey(translation.filters, "required_params")
     /\ translation.filters["required_params"].kind = "list"
     /\ Len(translation.filters["required_params"].items) >= 2)
    => \A view \in RecordViews :
          Matches(translation.native, view)
             <=> \A v \in Range(translation.filters["required_params"].items) :
                    v \in view["required_params"]

\* C5: a scalar under tool_name, toolkit, toolkit_id, chain or
\* required_params translates as the one-element list of it does, to
\* membership of the field in {v}; the empty map translates to the filter
\* every record matches.
C5_ScalarAsSingleton ==
    Translated =>
      /\ \A key \in MembershipKeys \cup {"required_params"} :
           (/\ OnlyKey(translation.filters, key)
            /\ translation.filters[key].kind = "scalar")
           => LET v == translation.filters[key].items[1] IN
              /\ translation.native
                    = _build_pinecone_filter([NoFilters EXCEPT ![key] = List(<<v>>)])
              /\ translation.native = SetIn(EmptyDict, FieldOf(key), <<v>>)
      /\ IsEmptyMap(translation.filters) =>
           /\ translation.native = EmptyDict
           /\ \A view \in RecordViews : Matches(translation.native, view)

(***************************************************************************)
(* Properties of the queries and of the toolkit operations.                *)
(***************************************************************************)
Finished(op) == pc = "done" /\ frame.caller = op
Ok(op) == Finished(op) /\ result.status = "ok"
ToolkitRecords(ns, toolkit_id) ==
    {id \in Ids(ns) : index[ns][id].metadata.toolkit_id = toolkit_id}
FilterToolkit79 == [NoFilters EXCEPT !["toolkit_id"] = List(<<IntV(79)>>)]

\* C6: a query without query text and with a non-empty filter map gives
\* every result the score 1.0, in the order the index returned them; on a
\* namespace holding just tools 1001 and 1002 of toolkit 79, the filter
\* toolkit_id [79] returns both, each with score 1.0.
C6_FilterOnlyScoreOne ==
    (Ok("query_tools") /\ frame.query = "" /\ ~IsEmptyMap(frame.filters)) =>
      LET returned == LastCall.ids
          kept == SelectSeq(returned,
                     LAMBDA id :
                        Given(frame.filters, "name_prefix") =>
                           startswith(index[frame.namespace][id].metadata.tool_name,
                                      frame.filters["name_prefix"].items[1].s))
      IN /\ Len(result.responses) = Len(kept)
         /\ \A j \in 1..Len(kept) :
              /\ str(result.responses[j].action_id) = kept[j]
              /\ result.responses[j].score = 10000
         /\ (/\ Ids(frame.namespace) = {str(1001), str(1002)}
             /\ ToolkitRecords(frame.namespace, 79) = Ids(frame.namespace)
             /\ frame.filters = FilterToolkit79
             /\ frame.arg >= 2)
            => /\ {result.responses[j].action_id : j \in 1..Len(result.responses)}
                     = {1001, 1002}
               /\ Len(result.responses) = 2

\* the filter-only query for toolkit 79 returned tools 1001 and 1002
C6_Witness ==
    /\ Ok("query_tools")
    /\ frame.query = ""
    /\ frame.filters = FilterToolkit79
    /\ Ids(frame.namespace) = {str(1001), str(1002)}
    /\ Len(result.responses) = 2
    /\ result.responses[1].action_id = 1002
    /\ result.responses[1].score = 10000 /\ result.responses[2].score = 10000

C9_NoDoubleWrapping ==
    (pc = "done" /\ result.status = "error" /\ result.inner # "")
    => result.kind = result.inner

(***************************************************************************)
(* Properties of the metadata codec.                                       *)
(***************************************************************************)
\* C10: decoding the metadata of a valid tool gives the tool back, field by
\* field, its parameters in their order.
C10_RoundTrip ==
    codec.stage = "decoded" => codec.decoded = codec.tool

\* a tool with two different parameters, one without description, went
\* through the codec
C10_Witness ==
    /\ codec.stage = "decoded"
    /\ Len(codec.tool.parameters) = 2
    /\ codec.tool.parameters[1].name # codec.tool.parameters[2].name
    /\ codec.tool.parameters[1].description.none
    /\ ~codec.tool.parameters[2].description.none
    /\ codec.decoded.parameters = codec.tool.parameters

(***************************************************************************)
(* Properties of reading stored records.                                   *)
(***************************************************************************)
\* the elements of a stored parameters value when it is a list (given as a
\* list, or as text that parses to a list)
IsStoredList(parameters) ==
    \/ parameters.kind = "list"
    \/ /\ parameters.kind = "text"
       /\ json_loads(parameters.toks).ok
       /\ json_loads(parameters.toks).val.t = "list"
StoredItems(parameters) ==
    IF parameters.kind = "list" THEN parameters.items
    ELSE json_loads(parameters.toks).val.items

\* C11: a stored record decodes without raising: a missing numeric field
\* reads as 0, a missing string field as "", and the parameters are those of
\* the stored list when every element of it is a valid parameter object and
\* the empty list otherwise (missing, unparseable, not a list, or a list with
\* an invalid element at any position), never a part of the stored list.
C11_DecodeNeverPartial ==
    codec.stage = "read" =>
        LET m == codec.metadata
            d == codec.decoded
        IN /\ "action_id" \notin DOMAIN m => d.action_id = 0
           /\ "toolkit_id" \notin DOMAIN m => d.toolkit_id = 0
           /\ "tool_name" \notin DOMAIN m => d.tool_name = ""
           /\ "description" \notin DOMAIN m => d.description = ""
           /\ "toolkit_name" \notin DOMAIN m => d.toolkit = ""
           /\ IF /\ "parameters" \in DOMAIN m
                 /\ IsStoredList(m.parameters)
                 /\ \A i \in 1..Len(StoredItems(m.parameters)) :
                        ValidParamDict(StoredItems(m.parameters)[i])
              THEN d.parameters =
                      [i \in 1..Len(StoredItems(m.parameters)) |->
                          ParamFromDict(StoredItems(m.parameters)[i])]
              ELSE d.parameters = <<>>

(***************************************************************************)
(* Properties of the scores of query_tools.                                *)
(***************************************************************************)
\* the raw score the index returned for response j of the finished query
RawOf(j) ==
    LET q == LastCall
        k == CHOOSE k \in 1..Len(q.ids) : q.ids[k] = str(result.responses[j].action_id)
    IN q.scores[k]

\* the query had text and the embedding service returned a query vector
TextQueryEmbedded ==
    /\ frame.query # ""
    /\ Len(calls) = 2
    /\ calls[1].api = "embed_query" /\ calls[1].dim # 0

\* C12: every response of every query has a score in [0, 1]; a response to
\* a query with text (embedded into a query vector) has the score
\* clamp((raw + 1) / 2, 0, 1) of its raw score rounded to 4 decimals, so that
\* 1.0 and above give 1.0, -1.0 and below 0.0, and 0.0 gives 0.5; and a
\* response never has a lower score than one that follows it.  Scores are in
\* units of 0.0001: twice the score is within one unit of the clamped
\* raw + 1.
C12_ScoreNormalized ==
    (Finished("query_tools") /\ Ok("query_tools")) =>
        LET n == Len(result.responses) IN
        /\ \A j \in 1..n : result.responses[j].score \in 0..10000
        /\ TextQueryEmbedded =>
              \A j \in 1..n :
                 LET raw == RawOf(j)
                     score == result.responses[j].score
                     clamped == IF raw + 10000 < 0 THEN 0
                                ELSE IF raw + 10000 > 20000 THEN 20000
                                ELSE raw + 10000
                 IN /\ 2 * score - clamped \in {-1, 0, 1}
                    /\ raw >= 10000 => score = 10000
                    /\ raw <= -10000 => score = 0
                    /\ raw = 0 => score = 5000
        /\ \A j \in 1..n, k \in 1..n :
              j < k => result.responses[j].score >= result.responses[k].score

\* a text query returned three responses: one with a raw score above 1, one
\* with a raw score that needs rounding, one with a raw score below -1
C12_Witness ==
    /\ Finished("query_tools") /\ Ok("query_tools")
    /\ TextQueryEmbedded
    /\ Len(result.responses) = 3
    /\ RawOf(1) = 12000 /\ result.responses[1].score = 10000
    /\ RawOf(2) = -3 /\ result.responses[2].score = 4999
    /\ RawOf(3) = -20000 /\ result.responses[3].score = 0

(***************************************************************************)
(* Properties of top_k.                                                    *)
(***************************************************************************)
\* C13: a search request built without top_k asks for 5 results; a request
\* with top_k below 1 or above 50 is rejected with no embedding or index
\* call made; and every index query that query_tools issues asks for the
\* request's top_k, which is between 1 and 50.
C13_TopKInRange ==
    Finished("query_tools") =>
        /\ frame.top_k_omitted => frame.arg = 5
        /\ (frame.arg < 1 \/ frame.arg > 50) =>
              /\ calls = <<>>
              /\ result.status = "error"
              /\ result.op = "ToolSearchRequest"
        /\ \A c \in 1..Len(calls) :
              calls[c].api = "query" =>
                 /\ calls[c].n = frame.arg
                 /\ calls[c].n >= 1 /\ calls[c].n <= 50

\* a request for 51 results was rejected while the namespace held records
C13_Witness ==
    /\ Finished("query_tools")
    /\ frame.arg = 51
    /\ frame.query # ""
    /\ calls = <<>>
    /\ result.status = "error"
    /\ Ids(frame.namespace) # {}

(***************************************************************************)
(* Properties of the stored records.                                       *)
(***************************************************************************)
\* C14: every record of the index is stored under str(action_id) of the
\* tool in its metadata, and its vector is not empty, has the configured
\* dimension and is the embedding of that tool's embedding text; so no
\* record exists for a tool whose embedding came back empty or with another
\* length.
C14_RecordsWellFormed ==
    \A ns \in Namespaces :
       \A id \in Ids(ns) :
          LET rec == index[ns][id] IN
          /\ id = str(rec.metadata.action_id)
          /\ rec.values.dim # 0
          /\ rec.values.dim = EMBEDDING_DIMENSION
          /\ rec.values.text = _create_embedding_text(metadata_to_tool(rec.metadata))

(***************************************************************************)
(* Properties of filter maps with several keys.                            *)
(***************************************************************************)
\* C15: a record that satisfies the translated expression satisfies the
\* membership clause of every key given in the filter map: for each of
\* tool_name, toolkit, toolkit_id and chain that is given, the record's
\* field is one of the given values, also when required_params is given
\* with it as a list of two or more elements.
C15_EveryKeyRestricts ==
    Translated =>
      \A view \in RecordViews :
         Matches(translation.native, view) =>
            \A key \in MembershipKeys :
               Given(translation.filters, key) =>
                  \E v \in Range(translation.filters[key].items) :
                     v \in view[FieldOf(key)]

(***************************************************************************)
(* Properties of what upsert_tools returns.                                *)
(***************************************************************************)
\* C16: when upsert_tools returns normally for a non-empty list of valid
\* tools with pairwise different action_ids, whatever the batch size and
\* the number of vectors the embedding service returned, the ids returned
\* are str(action_id) of each tool, one per tool in the order of the list,
\* and every tool of the list is stored in the namespace under its id with
\* its own metadata.
C16_OneIdPerTool ==
    (/\ Ok("upsert_tools")
     /\ Len(frame.tools) > 0
     /\ \A a, b \in 1..Len(frame.tools) :
           a # b => frame.tools[a].action_id # frame.tools[b].action_id)
    => /\ result.ids = StrIds(frame.tools)
       /\ \A j \in 1..Len(frame.tools) :
             LET id == str(frame.tools[j].action_id) IN
             /\ id \in Ids(frame.namespace)
             /\ index[frame.namespace][id].metadata = build_tool_metadata(frame.tools[j])

====
